---------------------------- MODULE Spec2Model ----------------------------
(***************************************************************************)
(* A model of hashin (src/hashin.py): the requirements-file merge          *)
(* (amend_requirements_content) and the driver (run, run_packages,         *)
(* get_package_hashes).  Text is modelled character by character: a text   *)
(* is a TLA+ string, and the Python string methods and regular expressions *)
(* the code uses are modelled by what they do to the characters.           *)
(***************************************************************************)
EXTENDS Naturals, Sequences, FiniteSets, TLC

(***************************************************************************)
(* Python string primitives.                                               *)
(***************************************************************************)
Ch(s, i) == SubSeq(s, i, i)

SetMin(S) == CHOOSE x \in S : \A y \in S : x <= y

SetMax(S) == CHOOSE x \in S : \A y \in S : x >= y

range_of(f) == {f[i] : i \in 1..Len(f)}

\* s[from:] of Python, 1-based
Drop(s, n) == SubSeq(s, n + 1, Len(s))

startswith(s, p) == Len(p) <= Len(s) /\ SubSeq(s, 1, Len(p)) = p

OccursAt(s, p, i) == i + Len(p) - 1 <= Len(s) /\ SubSeq(s, i, i + Len(p) - 1) = p

\* str.find, 1-based; 0 when p does not occur in s
find(s, p) ==
    LET hits == {i \in 1..Len(s) : OccursAt(s, p, i)}
    IN IF hits = {} THEN 0 ELSE SetMin(hits)

Contains(s, p) == find(s, p) # 0

\* str.strip(chars)
strip(s, chars) ==
    LET keep == {i \in 1..Len(s) : Ch(s, i) \notin chars}
    IN IF keep = {} THEN "" ELSE SubSeq(s, SetMin(keep), SetMax(keep))

Whitespace == {" ", "\t", "\n"}

\* str.split(sep)
RECURSIVE split(_, _)
split(s, sep) ==
    LET i == find(s, sep)
    IN IF i = 0 THEN <<s>>
       ELSE <<SubSeq(s, 1, i - 1)>> \o split(Drop(s, i + Len(sep) - 1), sep)

split_nl(s) == split(s, "\n")

\* str.splitlines(): no empty last line for a text that ends with a newline
splitlines(s) ==
    LET parts == split_nl(s)
    IN IF parts[Len(parts)] = "" THEN SubSeq(parts, 1, Len(parts) - 1) ELSE parts

\* sep.join(parts)
RECURSIVE join(_, _)
join(sep, parts) ==
    IF parts = <<>> THEN ""
    ELSE IF Len(parts) = 1 THEN parts[1]
    ELSE parts[1] \o sep \o join(sep, Tail(parts))

\* str.replace(old, new): every non-overlapping occurrence, left to right
RECURSIVE replace(_, _, _)
replace(s, old, new) ==
    LET i == find(s, old)
    IN IF i = 0 THEN s
       ELSE SubSeq(s, 1, i - 1) \o new \o replace(Drop(s, i + Len(old) - 1), old, new)

UpperCase == "ABCDEFGHIJKLMNOPQRSTUVWXYZ"

LowerCase == "abcdefghijklmnopqrstuvwxyz"

\* str.lower() of one character (re.IGNORECASE folds the same way)
lower(c) ==
    LET hit == {i \in 1..Len(UpperCase) : Ch(UpperCase, i) = c}
    IN IF hit = {} THEN c ELSE Ch(LowerCase, SetMin(hit))

\* re.sub over every character of s
RECURSIVE map_chars(_, _, _)
map_chars(s, from, to) ==
    IF s = "" THEN ""
    ELSE (IF Ch(s, 1) \in from THEN to ELSE Ch(s, 1)) \o map_chars(Drop(s, 1), from, to)

RECURSIVE lower_text(_)
lower_text(s) == IF s = "" THEN "" ELSE lower(Ch(s, 1)) \o lower_text(Drop(s, 1))

\* the name under which the index files a package: lower case, _ as -
normal_package(name) == map_chars(lower_text(name), {"_"}, "-")

(***************************************************************************)
(* amend_requirements_content                                              *)
(***************************************************************************)
padding == "    "

\* (?P<indent>[ \t]*): the leading run of spaces and tabs of a line
indent_of(line) ==
    LET stop == {i \in 1..Len(line) : Ch(line, i) \notin {" ", "\t"}}
    IN IF stop = {} THEN line ELSE SubSeq(line, 1, SetMin(stop) - 1)

\* re.escape(old_name).replace("\\-", "[-_]") under re.IGNORECASE, matched at
\* the start of text: a hyphen of old_name matches - or _, every other
\* character matches itself in either case
name_matches(text, old_name) ==
    /\ Len(text) >= Len(old_name)
    /\ \A k \in 1..Len(old_name) :
          IF Ch(old_name, k) = "-"
          THEN Ch(text, k) \in {"-", "_"}
          ELSE lower(Ch(text, k)) = lower(Ch(old_name, k))

\* regex.search(line) for ^(?P<indent>[ \t]*)NAME(\[.*\])?== on one line
regex_search(line, old_name) ==
    LET rest == Drop(line, Len(indent_of(line)))
        after == Drop(rest, Len(old_name))
    IN /\ name_matches(rest, old_name)
       /\ \/ startswith(after, "==")
          \/ /\ startswith(after, "[")
             /\ \E j \in 2..Len(after) : SubSeq(after, j, j + 2) = "]=="

\* the old entry compared with the new block, as sets of normalised lines
is_different_lines(old_lines, new_lines, indent) ==
    LET old == {map_chars(strip(old_lines[i], {" ", "\\"}), {"-", "_"}, "-") :
                    i \in 1..Len(old_lines)}
        new == {indent \o strip(new_lines[i], {" ", "\\"}) : i \in 1..Len(new_lines)}
    IN old # new

\* the index of the last line the loop over requirements.splitlines() collects,
\* having collected up to line i
RECURSIVE collect_end(_, _, _, _)
collect_end(all_lines, i, indent, old_name) ==
    IF i = Len(all_lines) THEN i
    ELSE LET line == all_lines[i + 1]
         IN IF regex_search(line, old_name)
            THEN collect_end(all_lines, i + 1, indent, old_name)
            ELSE IF startswith(line, indent \o padding \o "#") THEN i
            ELSE IF startswith(line, indent \o padding)
            THEN collect_end(all_lines, i + 1, indent, old_name)
            ELSE i

\* re.sub(r"^(.+)$", indent + r"\1", new_text, flags=re.MULTILINE)
RECURSIVE indent_lines(_, _)
indent_lines(parts, indent) ==
    IF parts = <<>> THEN <<>>
    ELSE <<IF parts[1] = "" THEN "" ELSE indent \o parts[1]>>
         \o indent_lines(Tail(parts), indent)

indented_text(new_text, indent) == join("\n", indent_lines(split_nl(new_text), indent))

\* the branch of the loop body taken when no line matches
amend_append(requirements, new_text) ==
    (IF requirements # "" THEN strip(requirements, Whitespace) \o "\n" ELSE "")
    \o strip(new_text, Whitespace) \o "\n"

\* the branch of the loop body taken when a line matches
amend_replace(requirements, old_name, new_text, first) ==
    LET all_lines == splitlines(requirements)
        indent == indent_of(all_lines[first])
        last == collect_end(all_lines, first, indent, old_name)
        lines == SubSeq(all_lines, first, last)
    IN IF is_different_lines(lines, splitlines(new_text), indent)
       THEN replace(requirements, join("\n", lines \o <<"">>),
                    indented_text(new_text, indent))
       ELSE requirements

\* one iteration of "for package, old_name, new_text in all_new_lines"
amend_one(requirements, edit) ==
    LET all_lines == splitlines(requirements)
        matching == {i \in 1..Len(all_lines) : regex_search(all_lines[i], edit.old_name)}
    IN IF matching = {}
       THEN amend_append(requirements, edit.new_text)
       ELSE amend_replace(requirements, edit.old_name, edit.new_text, SetMin(matching))

RECURSIVE amend_requirements_content(_, _)
amend_requirements_content(requirements, all_new_lines) ==
    IF all_new_lines = <<>> THEN requirements
    ELSE amend_requirements_content(amend_one(requirements, Head(all_new_lines)),
                                    Tail(all_new_lines))

(***************************************************************************)
(* run_packages: the text block of one resolved package.                   *)
(***************************************************************************)
\* the characters of the compared strings, in code point order
CodePoints == " \"-.0123456789;<=ABCDEFGHIJKLMNOPQRSTUVWXYZ[\\]_abcdefghijklmnopqrstuvwxyz"

\* ord() of a character
char_ord(c) == find(CodePoints, c)

\* a < b of Python strings
RECURSIVE str_less(_, _)
str_less(a, b) ==
    IF b = "" THEN FALSE
    ELSE IF a = "" THEN TRUE
    ELSE IF Ch(a, 1) = Ch(b, 1) THEN str_less(Drop(a, 1), Drop(b, 1))
    ELSE char_ord(Ch(a, 1)) < char_ord(Ch(b, 1))

\* list.insert keeping the order of equal keys (sorted() is stable)
RECURSIVE insert_sorted(_, _)
insert_sorted(sorted_list, h) ==
    IF sorted_list = <<>> THEN <<h>>
    ELSE IF str_less(h, Head(sorted_list)) THEN <<h>> \o sorted_list
    ELSE <<Head(sorted_list)>> \o insert_sorted(Tail(sorted_list), h)

\* the hashes in the order the index gave them
unsorted(hashes) == hashes

\* sorted(data["hashes"], key=lambda r: r["hash"])
RECURSIVE sorted_by_hash(_)
sorted_by_hash(hashes) ==
    IF hashes = <<>> THEN <<>>
    ELSE insert_sorted(sorted_by_hash(SubSeq(hashes, 1, Len(hashes) - 1)),
                       hashes[Len(hashes)])

\* hash lines that all end with a backslash, the last one too
RECURSIVE hash_lines_continued(_, _, _, _)
hash_lines_continued(ordered, i, n, algorithm) ==
    IF i > Len(ordered) THEN ""
    ELSE padding \o "--hash=" \o algorithm \o ":" \o ordered[i] \o " \\\n"
         \o hash_lines_continued(ordered, i + 1, n, algorithm)

RECURSIVE hash_lines(_, _, _, _)
hash_lines(ordered, i, n, algorithm) ==
    IF i > Len(ordered) THEN ""
    ELSE padding \o "--hash=" \o algorithm \o ":" \o ordered[i]
         \o (IF i # n THEN " \\" ELSE "") \o "\n"
         \o hash_lines(ordered, i + 1, n, algorithm)

\* new_lines of run_packages: req is str(req), restriction "" when there is none
format_new_lines(req, version, restriction, hashes, algorithm) ==
    req \o "==" \o version
    \o (IF restriction = "" THEN "" ELSE "; " \o restriction) \o " \\\n"
    \o hash_lines(sorted_by_hash(hashes), 1, Len(hashes), algorithm)

DEFAULT_ALGORITHM == "sha256"

(***************************************************************************)
(* Package specs: _explode_package_spec and packaging's Requirement.       *)
(***************************************************************************)
\* _explode_package_spec: "" stands for None
explode_package_spec(spec) ==
    LET semi == find(spec, ";")
        head == IF semi = 0 THEN spec ELSE strip(SubSeq(spec, 1, semi - 1), Whitespace)
        restriction == IF semi = 0 THEN "" ELSE strip(Drop(spec, semi), Whitespace)
        eq == find(head, "==")
    IN [package |-> IF eq = 0 THEN head ELSE SubSeq(head, 1, eq - 1),
        version |-> IF eq = 0 THEN "" ELSE Drop(head, eq + 1),
        restriction |-> restriction]

RECURSIVE sorted_strings(_)
sorted_strings(xs) ==
    IF xs = <<>> THEN <<>>
    ELSE insert_sorted(sorted_strings(SubSeq(xs, 1, Len(xs) - 1)), xs[Len(xs)])

\* Requirement(text): the name, the extras, the pinned version and the marker
\* of name[extras]==version; marker
Requirement(text) ==
    LET semi == find(text, ";")
        head == strip(IF semi = 0 THEN text ELSE SubSeq(text, 1, semi - 1), Whitespace)
        marker == IF semi = 0 THEN "" ELSE strip(Drop(text, semi), Whitespace)
        eq == find(head, "==")
        named == IF eq = 0 THEN head ELSE SubSeq(head, 1, eq - 1)
        open == find(named, "[")
    IN [name |-> IF open = 0 THEN named ELSE SubSeq(named, 1, open - 1),
        extras |-> IF open = 0 THEN <<>>
                   ELSE split(SubSeq(named, open + 1, Len(named) - 1), ","),
        specifier |-> IF eq = 0 THEN "" ELSE Drop(head, eq + 1),
        marker |-> marker]

\* str(req) of a Requirement whose specifier is empty or was set to None
requirement_str(req) ==
    req.name
    \o (IF req.extras = <<>> THEN "" ELSE "[" \o join(",", sorted_strings(req.extras)) \o "]")
    \o (IF req.marker = "" THEN "" ELSE "; " \o req.marker)

(***************************************************************************)
(* Versions: packaging.version.parse, for versions N(.N)* with an optional *)
(* pre-release suffix such as b1 or rc1.                                   *)
(***************************************************************************)
Digits == "0123456789"

RECURSIVE int_of(_)
int_of(s) ==
    IF s = "" THEN 0
    ELSE int_of(SubSeq(s, 1, Len(s) - 1)) * 10 + (find(Digits, Ch(s, Len(s))) - 1)

RECURSIVE ints_of(_)
ints_of(parts) == IF parts = <<>> THEN <<>> ELSE <<int_of(Head(parts))>> \o ints_of(Tail(parts))

RECURSIVE without_final_zeros(_)
without_final_zeros(r) ==
    IF r # <<>> /\ r[Len(r)] = 0 THEN without_final_zeros(SubSeq(r, 1, Len(r) - 1)) ELSE r

\* parse(version): the release numbers, compared without trailing zeros, and
\* the pre-release suffix ("" for a final release)
parse(version) ==
    LET letters == {i \in 1..Len(version) :
                        ~Contains(Digits, Ch(version, i)) /\ Ch(version, i) # "."}
        cut == IF letters = {} THEN Len(version) + 1 ELSE SetMin(letters)
    IN [release |-> without_final_zeros(ints_of(split(SubSeq(version, 1, cut - 1), "."))),
        pre |-> SubSeq(version, cut, Len(version))]

is_prerelease(version) == parse(version).pre # ""

\* a < b of tuples of numbers
RECURSIVE release_less(_, _)
release_less(a, b) ==
    IF b = <<>> THEN FALSE
    ELSE IF a = <<>> THEN TRUE
    ELSE IF Head(a) = Head(b) THEN release_less(Tail(a), Tail(b))
    ELSE Head(a) < Head(b)

\* versions compared as the strings they are
version_less_as_text(a, b) == str_less(a, b)

\* (parse(a), a) < (parse(b), b): a final release is above its pre-releases
version_less(a, b) ==
    LET va == parse(a)
        vb == parse(b)
    IN IF va.release # vb.release THEN release_less(va.release, vb.release)
       ELSE IF va.pre # vb.pre
            THEN va.pre # "" /\ (vb.pre = "" \/ str_less(va.pre, vb.pre))
       ELSE str_less(a, b)

(***************************************************************************)
(* The package index and get_package_hashes.  A result is a record whose   *)
(* exc field names the exception raised, "" when none was.                 *)
(***************************************************************************)
Raised(exc) == [exc |-> exc]

File(hash, python_version) == [hash |-> hash, python_version |-> python_version]

Release(version, files) == [version |-> version, files |-> files]

\* the JSON the index holds for a requested name; canon is the name the
\* index reports for the package a-b.  [found |-> FALSE] is a 404.
index_json(package, canon) ==
    IF normal_package(package) = "b"
    THEN [found |-> TRUE, name |-> "b", version |-> "3b1",
          releases |-> <<Release("1", <<File("1b", "py3"), File("1a", "source")>>),
                         Release("3b1", <<File("3b", "source")>>),
                         Release("2", <<File("2b", "py3"), File("2a", "source")>>),
                         Release("0", <<>>)>>]
    ELSE IF normal_package(package) = "a-b"
    THEN [found |-> TRUE, name |-> canon, version |-> "2",
          releases |-> <<Release("2", <<File("4b", "py3"), File("4a", "cp35")>>),
                         Release("1", <<File("3a", "py3")>>)>>]
    ELSE IF normal_package(package) = "p"
    THEN [found |-> TRUE, name |-> "p", version |-> "1rc1",
          releases |-> <<Release("1rc1", <<File("5a", "source")>>)>>]
    ELSE [found |-> FALSE]

\* get_package_data with _download: answer is what the network does with the
\* request, 200 for the JSON of the index
get_package_data(package, canon, answer) ==
    LET json == index_json(package, canon)
    IN IF answer = "500" THEN Raised("PackageError")
       ELSE IF ~json.found THEN Raised("PackageNotFoundError")
       ELSE IF answer = "insane" THEN Raised("PackageError")
       ELSE [exc |-> "", data |-> json]

Answers == {"200", "500", "insane"}

get_latest_version(data, include_prereleases) ==
    IF data.releases = <<>> THEN [exc |-> "", version |-> data.version]
    ELSE LET eligible == {i \in 1..Len(data.releases) :
                              \/ ~is_prerelease(data.releases[i].version)
                              \/ include_prereleases}
         IN IF eligible = {} THEN Raised("NoVersionsError")
            ELSE LET top == CHOOSE i \in eligible : \A j \in eligible :
                                ~version_less(data.releases[i].version,
                                              data.releases[j].version)
                 IN [exc |-> "", version |-> data.releases[top].version]

\* expand_python_version: the tags of a d.d version, the version alone otherwise
expand_python_version(version) ==
    IF /\ Len(version) = 3
       /\ Contains(Digits, Ch(version, 1))
       /\ Ch(version, 2) = "."
       /\ Contains(Digits, Ch(version, 3))
    THEN LET major == Ch(version, 1)
             minor == Ch(version, 3)
         IN {major \o "." \o minor, "cp" \o major \o minor, "py" \o major,
             "py" \o major \o "." \o minor, "py" \o major \o minor, "source", "py2.py3"}
    ELSE {version}

RECURSIVE select_files(_, _)
select_files(files, tags) ==
    IF files = <<>> THEN <<>>
    ELSE (IF Head(files).python_version \in tags THEN <<Head(files)>> ELSE <<>>)
         \o select_files(Tail(files), tags)

\* filter_releases, on the python_version release_url_metadata finds in the url
filter_releases(files, python_versions) ==
    select_files(files, UNION {expand_python_version(python_versions[i]) :
                                   i \in 1..Len(python_versions)})

\* get_releases_hashes, for an index that publishes the digest of the algorithm
get_releases_hashes(files) == [i \in 1..Len(files) |-> files[i].hash]

\* get_package_hashes from the point where the package data is at hand
hashes_of_data(data, version, python_versions, include_prereleases) ==
    LET latest == IF version = "" THEN get_latest_version(data, include_prereleases)
                  ELSE [exc |-> "", version |-> version]
    IN IF latest.exc # "" THEN Raised(latest.exc)
       ELSE LET found == {i \in 1..Len(data.releases) :
                              data.releases[i].version = latest.version}
            IN IF found = {} THEN Raised("PackageError")
               ELSE LET all_files == data.releases[SetMin(found)].files
                        files == IF python_versions # <<>>
                                 THEN filter_releases(all_files, python_versions)
                                 ELSE all_files
                    IN IF files = <<>> THEN Raised("PackageError")
                       ELSE [exc |-> "", package |-> data.name,
                             version |-> latest.version,
                             hashes |-> get_releases_hashes(files)]

\* get_package_hashes: the data of lookup_memory when the package is in it,
\* of the index otherwise
get_package_hashes(package, version, python_versions, include_prereleases, lookup_memory, canon, answer) ==
    LET got == IF package \in DOMAIN lookup_memory
               THEN [exc |-> "", data |-> lookup_memory[package]]
               ELSE get_package_data(package, canon, answer)
    IN IF got.exc # "" THEN Raised(got.exc)
       ELSE hashes_of_data(got.data, version, python_versions, include_prereleases)

(***************************************************************************)
(* Requirements documents, described entry by entry so that a property can *)
(* speak of "the entry of package b" without using the code under check.   *)
(***************************************************************************)
MaxEntries == 2

\* an environment marker, in the form str(Marker) gives it
Marker == "python_version < \"3\""

MaxEdits == 2

Names == {"b", "a-b", "a_b", "A-b"}

Entry(indent, name, extras, version, marker, hashes, cont, comments) ==
    [indent |-> indent, name |-> name, extras |-> extras, version |-> version,
     marker |-> marker, hashes |-> hashes, cont |-> cont, comments |-> comments]

\* the digests of package b are a and b, those of the other packages c and d
BaseEntry(name) ==
    Entry("", name, "", "1", "", IF name = "b" THEN <<"b", "a">> ELSE <<"d", "c">>,
          TRUE, <<>>)

\* the entries a document is made of: each spelling of a name, and the entry
\* of b varied one way at a time
EntrySet ==
    {BaseEntry(n) : n \in Names}
    \cup {Entry("    ", "b", "", "1", "", <<"b", "a">>, TRUE, <<>>),
          Entry("", "b", "", "1", "", <<"b", "a">>, FALSE, <<>>),
          Entry("", "b", "", "1", "", <<>>, FALSE, <<>>),
          Entry("", "a-b", "", "1", "", <<>>, FALSE, <<>>),
          Entry("", "b", "", "1", "; " \o Marker, <<"b", "a">>, TRUE, <<>>),
          Entry("", "b", "", "1", "", <<"a">>, TRUE, <<"    # c", "    #  d">>),
          Entry("", "b", "", "1", "", <<"a">>, TRUE, <<"        # c">>)}

RECURSIVE entry_hash_lines(_, _)
entry_hash_lines(e, i) ==
    IF i > Len(e.hashes) THEN ""
    ELSE e.indent \o padding \o "--hash=sha256:" \o e.hashes[i]
         \o (IF e.cont /\ i < Len(e.hashes) THEN " \\" ELSE "") \o "\n"
         \o entry_hash_lines(e, i + 1)

\* the header line and hash lines of an entry, as they stand in a file
entry_span(e) ==
    e.indent \o e.name \o e.extras \o "==" \o e.version \o e.marker
    \o (IF e.cont /\ e.hashes # <<>> THEN " \\" ELSE "") \o "\n"
    \o entry_hash_lines(e, 1)

entry_comments(e) == IF e.comments = <<>> THEN "" ELSE join("\n", e.comments) \o "\n"

entry_text(e) == entry_span(e) \o entry_comments(e)

RECURSIVE entries_text(_)
entries_text(es) ==
    IF es = <<>> THEN "" ELSE entry_text(Head(es)) \o entries_text(Tail(es))

\* the text of a document: lead, then the entries; final_nl FALSE leaves the
\* last line without its newline
doc_text(d) ==
    LET body == d.lead \o entries_text(d.entries)
    IN IF d.final_nl \/ d.entries = <<>> THEN body ELSE SubSeq(body, 1, Len(body) - 1)

EntrySeqs(n) == UNION {[1..k -> EntrySet] : k \in 0..n}

Docs ==
    {[lead |-> "", entries |-> es, final_nl |-> TRUE] : es \in EntrySeqs(MaxEntries)}
    \cup {[lead |-> "\n", entries |-> es, final_nl |-> TRUE] : es \in EntrySeqs(1)}
    \cup {[lead |-> "", entries |-> es, final_nl |-> FALSE] : es \in EntrySeqs(1) \ {<<>>}}

\* an element of all_new_lines, with the fields its block was built from
Edit(package, old_name, extras, version, marker, hashes) ==
    [package |-> package, old_name |-> old_name, extras |-> extras,
     version |-> version, marker |-> marker, hashes |-> hashes,
     new_text |-> format_new_lines(package \o extras, version, marker, hashes,
                                   DEFAULT_ALGORITHM)]

\* the edits run_packages builds: for explicit specs old_name is the index
\* name; in update-all mode it is the spelling of the document
EditSet ==
    {Edit(n, n, "", "2", "", IF n = "b" THEN <<"b", "a">> ELSE <<"d", "c">>) : n \in Names}
    \cup {Edit("b", "b", "", "1", "", <<"b", "a">>),
          Edit("a_b", "a_b", "", "1", "", <<"d", "c">>),
          Edit("b", "b", "", "1", Marker, <<"b", "a">>),
          Edit("ab", "A-b", "", "2", "", <<"c">>)}

EditLists == UNION {[1..k -> EditSet] : k \in 1..MaxEdits}

(***************************************************************************)
(* The calls of run: the files, the batches of specs and the options.      *)
(***************************************************************************)
MaxSpecs == 2

\* the files run is called on
FileDocs ==
    {[lead |-> "", entries |-> es, final_nl |-> nl] :
        es \in {<<>>,
                <<BaseEntry("b")>>,
                <<Entry("", "b", "[x]", "2", "", <<"2a", "2b">>, TRUE, <<>>)>>,
                <<Entry("", "b", "", "2", "", <<"2a", "2b">>, TRUE, <<>>),
                  Entry("", "A-b", "", "2", "; " \o Marker, <<"4a", "4b">>, TRUE, <<>>)>>,
                <<Entry("", "a_b", "", "1", "", <<>>, FALSE, <<>>),
                  Entry("", "b", "", "1", "", <<>>, FALSE, <<>>)>>},
        nl \in {TRUE}}
    \cup {[lead |-> "", entries |-> es, final_nl |-> FALSE] :
             es \in {<<BaseEntry("b")>>, <<BaseEntry("A-b")>>}}

\* the specs a user names: b, b with an extra, a spelling of a-b, a version
\* the index does not have, and a package the index does not know
SpecUniverse == {"b", "b[x]", "a_b", "b==9", "p", "zz"}

\* the batches: up to MaxSpecs specs, none named twice
SpecLists ==
    {sp \in UNION {[1..k -> SpecUniverse] : k \in 0..MaxSpecs} :
        \A i, j \in 1..Len(sp) : sp[i] = sp[j] => i = j}

Options(dry_run, interactive, synchronous, include_prereleases, python_versions) ==
    [dry_run |-> dry_run, interactive |-> interactive, synchronous |-> synchronous,
     include_prereleases |-> include_prereleases, python_versions |-> python_versions]

\* the defaults, and each option set in turn
OptionSet ==
    {Options(FALSE, FALSE, FALSE, FALSE, <<>>),
     Options(TRUE, FALSE, FALSE, FALSE, <<>>),
     Options(FALSE, TRUE, FALSE, FALSE, <<>>),
     Options(FALSE, FALSE, TRUE, FALSE, <<>>),
     Options(FALSE, FALSE, FALSE, TRUE, <<>>),
     Options(FALSE, FALSE, FALSE, FALSE, <<"2.7">>)}

\* the names the index may report for the package a-b
CanonSet == {"a-b", "a_b"}

None == [given |-> FALSE, versions |-> <<>>]

VARIABLES
    doc,                \* the document a call starts from, entry by entry
    before,             \* the text passed to the last call of amend
    requirements,       \* the text the last call of amend returned
    edits,              \* all_new_lines of the last call of amend
    phase,              \* "new", "amended", "reamended"; "run" under Spec
    file,               \* the content of the requirements file
    opened_for_writing, \* how many times the file was opened for writing
    printed,            \* the diffs printed, each the pair of texts compared
    canon,              \* the name the index reports for the package a-b
    args,               \* the specs and options run was called with
    pc,                 \* "run", "loop", "done"
    specs,              \* specs of run_packages
    previous_versions,  \* previous_versions of run_packages
    lookup_memory,      \* lookup_memory of run_packages
    idx,                \* the position of the loop over specs
    all_new_lines,      \* all_new_lines of run_packages
    yes_to_all,         \* yes_to_all of run_packages
    first_interactive,  \* first_interactive of run_packages
    result,             \* what run did: returned a status or raised
    opened_for_reading, \* how many times run_packages opened the file to read it
    calls,              \* the calls of interactive_upgrade_request, in order
    exited,             \* how main was left after run
    given,              \* the arguments of a function called on its own
    returned            \* what that function returned

amend_vars == <<before, requirements, edits>>

run_vars == <<file, opened_for_writing, printed, canon, args, pc, specs,
              previous_versions, lookup_memory, idx, all_new_lines, yes_to_all,
              first_interactive, result, opened_for_reading, calls, exited>>

pure_vars == <<given, returned>>

vars == <<doc, phase, amend_vars, run_vars, pure_vars>>

NoResult == [kind |-> "none"]

Returned(status) == [kind |-> "return", status |-> status]

Raise(exc) == [kind |-> "raise", exc |-> exc]

\* the values of the variables of run while only amend is called
RunIdle ==
    /\ file = ""
    /\ opened_for_writing = 0
    /\ printed = <<>>
    /\ canon = ""
    /\ args = <<>>
    /\ pc = "idle"
    /\ specs = <<>>
    /\ previous_versions = None
    /\ lookup_memory = <<>>
    /\ idx = 0
    /\ all_new_lines = <<>>
    /\ yes_to_all = FALSE
    /\ first_interactive = TRUE
    /\ result = NoResult
    /\ opened_for_reading = 0
    /\ calls = <<>>
    /\ exited = NoResult

\* the values of the variables of a function called on its own while it is not
PureIdle ==
    /\ given = <<>>
    /\ returned = <<>>

\* an edit list is one run_packages can build for the document: the old name
\* of an edit is the name the index reports or a name the document spells
Producible(e, d) ==
    \A i \in 1..Len(e) :
        \/ e[i].old_name = e[i].package
        \/ \E k \in 1..Len(d.entries) : d.entries[k].name = e[i].old_name

AmendInit ==
    /\ doc \in Docs
    /\ before = doc_text(doc)
    /\ requirements = doc_text(doc)
    /\ edits = <<>>
    /\ phase = "new"
    /\ RunIdle
    /\ PureIdle

\* amend_requirements_content(requirements, all_new_lines)
Amend ==
    /\ phase = "new"
    /\ \E e \in EditLists :
          /\ Producible(e, doc)
          /\ edits' = e
          /\ requirements' = amend_requirements_content(requirements, e)
    /\ before' = requirements
    /\ phase' = "amended"
    /\ UNCHANGED <<doc, run_vars, pure_vars>>

\* the same call again, on the text the first call returned
ReAmend ==
    /\ phase = "amended"
    /\ requirements' = amend_requirements_content(requirements, edits)
    /\ before' = requirements
    /\ phase' = "reamended"
    /\ UNCHANGED <<doc, edits, run_vars, pure_vars>>

AmendNext == Amend \/ ReAmend

AmendSpec == AmendInit /\ [][AmendNext]_vars

(***************************************************************************)
(* run and run_packages                                                    *)
(***************************************************************************)
\* the specs and previous versions run derives from the lines of the file
RECURSIVE derived(_)
derived(lines) ==
    IF lines = <<>> THEN <<>>
    ELSE LET line == Head(lines)
         IN (IF /\ Contains(line, "==")
                /\ ~startswith(strip(line, Whitespace), "#")
             THEN LET req == Requirement(Head(split(line, "\\")))
                  IN <<[spec |-> requirement_str(req), version |-> req.specifier]>>
             ELSE <<>>)
            \o derived(Tail(lines))

\* previous_versions: the last version recorded under each spec
versions_of(d) ==
    [s \in {d[i].spec : i \in 1..Len(d)} |->
        d[SetMax({i \in 1..Len(d) : d[i].spec = s})].version]

\* pre_download_packages: every spec's package data is fetched before the
\* loop; the network fails on the request of spec `bad` with `answer`, and on
\* none when bad = 0
pre_download_names(the_specs) ==
    [i \in 1..Len(the_specs) |-> Requirement(explode_package_spec(the_specs[i]).package).name]

pre_download(the_specs, bad, answer) ==
    LET names == pre_download_names(the_specs)
    IN [i \in 1..Len(names) |->
           get_package_data(names[i], canon, IF i = bad THEN answer ELSE "200")]

pre_download_memory(the_specs, fetched) ==
    LET names == pre_download_names(the_specs)
    IN [n \in range_of(names) |->
           fetched[SetMin({i \in 1..Len(names) : names[i] = n})].data]

Init ==
    /\ doc \in FileDocs
    /\ canon \in CanonSet
    /\ args \in {[specs |-> sp, options |-> o] : sp \in SpecLists, o \in OptionSet}
    /\ file = doc_text(doc)
    /\ opened_for_writing = 0
    /\ printed = <<>>
    /\ pc = "run"
    /\ specs = <<>>
    /\ previous_versions = None
    /\ lookup_memory = <<>>
    /\ idx = 0
    /\ all_new_lines = <<>>
    /\ yes_to_all = FALSE
    /\ first_interactive = TRUE
    /\ result = NoResult
    /\ opened_for_reading = 0
    /\ calls = <<>>
    /\ exited = NoResult
    /\ PureIdle
    /\ phase = "run"
    /\ before = ""
    /\ requirements = ""
    /\ edits = <<>>

\* run, and run_packages up to its loop: the specs are the ones given or the
\* ones of the file, and the package data is fetched ahead for two specs or
\* more unless the call is synchronous
Run ==
    /\ pc = "run"
    /\ LET from_file == derived(split_nl(file))
           the_specs == IF args.specs = <<>>
                        THEN [i \in 1..Len(from_file) |-> from_file[i].spec]
                        ELSE args.specs
       IN /\ specs' = the_specs
          /\ previous_versions' =
                IF args.specs = <<>>
                THEN [given |-> TRUE, versions |-> versions_of(from_file)]
                ELSE None
          /\ IF ~args.options.synchronous /\ Len(the_specs) > 1
             THEN \E bad \in 0..Len(the_specs), answer \in Answers \ {"200"} :
                     LET fetched == pre_download(the_specs, bad, answer)
                         failed == {i \in 1..Len(the_specs) : fetched[i].exc # ""}
                     IN IF failed = {}
                        THEN /\ lookup_memory' = pre_download_memory(the_specs, fetched)
                             /\ pc' = "loop"
                             /\ result' = result
                        ELSE \E i \in failed :
                                /\ result' = Raise(fetched[i].exc)
                                /\ pc' = "done"
                                /\ lookup_memory' = lookup_memory
             ELSE /\ lookup_memory' = lookup_memory
                  /\ pc' = "loop"
                  /\ result' = result
    /\ idx' = 1
    /\ UNCHANGED <<doc, phase, amend_vars, pure_vars, file, opened_for_writing,
                   opened_for_reading, calls, exited, printed, canon, args,
                   all_new_lines,
                   yes_to_all, first_interactive>>

\* the element of all_new_lines for a resolved spec
new_edit(got, req, previous_name, restriction) ==
    [package |-> got.package,
     old_name |-> previous_name,
     new_text |-> format_new_lines(
                      requirement_str([name |-> got.package, extras |-> req.extras,
                                       marker |-> ""]),
                      got.version, restriction, got.hashes, DEFAULT_ALGORITHM)]

\* a loop that wrote the file after each spec would have written the edits
\* of the specs before the failing one
PropagateAfterWriting(exc) ==
    /\ result' = Raise(exc)
    /\ pc' = "done"
    /\ file' = amend_requirements_content(file, all_new_lines)
    /\ opened_for_writing' = opened_for_writing + Len(all_new_lines)
    /\ UNCHANGED <<all_new_lines, idx, yes_to_all, first_interactive, calls>>

\* the exception of a failed resolution leaves run_packages
Propagate(exc) ==
    /\ result' = Raise(exc)
    /\ pc' = "done"
    /\ UNCHANGED <<file, opened_for_writing, all_new_lines, idx, yes_to_all,
                   first_interactive, calls>>

\* what the user may answer when asked, INTERRUPT standing for the
\* KeyboardInterrupt; nobody is asked unless the run is interactive, and after
\* ALL the answer is YES without asking
Responses ==
    IF args.options.interactive /\ ~yes_to_all
    THEN {"YES", "NO", "ALL", "QUIT", "INTERRUPT"}
    ELSE {"YES"}

\* a call of interactive_upgrade_request and what it returned; with force_yes
\* it prints the line of the package and reads no input
Called(package, response) ==
    calls' = Append(calls, [package |-> package, force_yes |-> yes_to_all,
                            response |-> response])

\* a quit that only skips the package, as NO does
QuitSkipping ==
    /\ idx' = idx + 1
    /\ UNCHANGED <<pc, result, file, opened_for_writing, all_new_lines, yes_to_all>>

\* return 1 on QUIT and on KeyboardInterrupt: run_packages is left at once
Quit ==
    /\ result' = Returned(1)
    /\ pc' = "done"
    /\ UNCHANGED <<file, opened_for_writing, all_new_lines, idx, yes_to_all>>

\* an ALL that is forgotten after its own package
accept_this_only(answered) == yes_to_all

\* yes_to_all after an accepted package: set by ALL and never reset
accept_all(answered) == yes_to_all \/ (args.options.interactive /\ answered = "ALL")

\* the loop body once the spec is exploded and its hashes are asked for:
\* the exception leaves run_packages, an unchanged version is skipped, and
\* otherwise the new lines are kept unless the user declines or quits
Resolved(exploded, req, got, response) ==
    LET previous_version ==
            IF /\ previous_versions.given
               /\ exploded.package \in DOMAIN previous_versions.versions
            THEN previous_versions.versions[exploded.package]
            ELSE ""
        previous_name == IF previous_versions.given THEN exploded.package
                         ELSE got.package
        answered == IF yes_to_all THEN "YES" ELSE response
    IN IF got.exc # "" THEN Propagate(got.exc)
       ELSE IF previous_version # "" /\ previous_version = got.version
       THEN /\ idx' = idx + 1
            /\ UNCHANGED <<pc, result, file, opened_for_writing, all_new_lines,
                           yes_to_all, first_interactive, calls>>
       ELSE IF args.options.interactive /\ answered = "NO"
       THEN /\ idx' = idx + 1
            /\ first_interactive' = FALSE
            /\ Called(got.package, answered)
            /\ UNCHANGED <<pc, result, file, opened_for_writing, all_new_lines,
                           yes_to_all>>
       ELSE IF args.options.interactive /\ answered = "QUIT"
       THEN /\ Quit
            /\ first_interactive' = FALSE
            /\ Called(got.package, answered)
       ELSE IF args.options.interactive /\ answered = "INTERRUPT"
       THEN /\ Quit
            /\ first_interactive' = first_interactive
            /\ Called(got.package, answered)
       ELSE /\ all_new_lines' = Append(all_new_lines,
                   new_edit(got, req, previous_name, exploded.restriction))
            /\ idx' = idx + 1
            /\ yes_to_all' = accept_all(answered)
            /\ first_interactive' = (first_interactive /\ ~args.options.interactive)
            /\ IF args.options.interactive THEN Called(got.package, answered)
               ELSE calls' = calls
            /\ UNCHANGED <<pc, result, file, opened_for_writing>>

\* one iteration of the loop over specs
Resolve ==
    /\ pc = "loop"
    /\ idx <= Len(specs)
    /\ \E answer \in Answers, response \in Responses :
          \E exploded \in {explode_package_spec(specs[idx])} :
             \E req \in {Requirement(exploded.package)} :
                \E got \in {get_package_hashes(req.name, exploded.version,
                                                args.options.python_versions,
                                                args.options.include_prereleases,
                                                lookup_memory, canon, answer)} :
                   Resolved(exploded, req, got, response)
    /\ UNCHANGED <<doc, phase, amend_vars, pure_vars, printed, canon, args, specs,
                   previous_versions, lookup_memory, opened_for_reading, exited>>

\* the end of run_packages without the early return: the file is read, amended
\* and written whether or not there is an edit
FinishWithoutReturn ==
    /\ pc = "loop"
    /\ idx > Len(specs)
    /\ LET amended == amend_requirements_content(file, all_new_lines)
       IN /\ opened_for_reading' = opened_for_reading + 1
          /\ IF args.options.dry_run
             THEN /\ printed' = Append(printed, <<file, amended>>)
                  /\ UNCHANGED <<file, opened_for_writing>>
             ELSE /\ file' = amended
                  /\ opened_for_writing' = opened_for_writing + 1
                  /\ printed' = printed
    /\ result' = Returned(0)
    /\ pc' = "done"
    /\ UNCHANGED <<doc, phase, amend_vars, pure_vars, exited, canon, args, specs,
                   previous_versions, lookup_memory, idx, all_new_lines, yes_to_all,
                   first_interactive, calls>>

\* the end of run_packages without the dry run: the diff is printed and the
\* file is written all the same
FinishWriting ==
    /\ pc = "loop"
    /\ idx > Len(specs)
    /\ IF all_new_lines = <<>>
       THEN UNCHANGED <<file, opened_for_reading, opened_for_writing, printed>>
       ELSE LET amended == amend_requirements_content(file, all_new_lines)
            IN /\ opened_for_reading' = opened_for_reading + 1
               /\ printed' = IF args.options.dry_run
                             THEN Append(printed, <<file, amended>>) ELSE printed
               /\ file' = amended
               /\ opened_for_writing' = opened_for_writing + 1
    /\ result' = Returned(0)
    /\ pc' = "done"
    /\ UNCHANGED <<doc, phase, amend_vars, pure_vars, exited, canon, args, specs,
                   previous_versions, lookup_memory, idx, all_new_lines, yes_to_all,
                   first_interactive, calls>>

\* run_packages after its loop: nothing to do without an edit; otherwise the
\* file is read and amended, and written unless the run is a dry run
Finish ==
    /\ pc = "loop"
    /\ idx > Len(specs)
    /\ IF all_new_lines = <<>>
       THEN UNCHANGED <<file, opened_for_reading, opened_for_writing, printed>>
       ELSE LET amended == amend_requirements_content(file, all_new_lines)
            IN /\ opened_for_reading' = opened_for_reading + 1
               /\ IF args.options.dry_run
                  THEN /\ printed' = Append(printed, <<file, amended>>)
                       /\ UNCHANGED <<file, opened_for_writing>>
                  ELSE /\ file' = amended
                       /\ opened_for_writing' = opened_for_writing + 1
                       /\ printed' = printed
    /\ result' = Returned(0)
    /\ pc' = "done"
    /\ UNCHANGED <<doc, phase, amend_vars, pure_vars, exited, canon, args, specs,
                   previous_versions, lookup_memory, idx, all_new_lines, yes_to_all,
                   first_interactive, calls>>

\* the try statement of main: the status run returns is the exit status, a
\* PackageError is printed on stderr for status 1, and any other exception
\* leaves main
main(r) ==
    IF r.kind = "return" THEN [kind |-> "exit", status |-> r.status, stderr |-> <<>>]
    ELSE IF r.exc = "PackageError"
    THEN [kind |-> "exit", status |-> 1, stderr |-> <<r.exc>>]
    ELSE [kind |-> "uncaught", exc |-> r.exc]

\* main once run is over; main calls run for the packages given, or with
\* --update-all for none, and --interactive goes with --update-all only
Main ==
    /\ pc = "done"
    /\ args.options.interactive => args.specs = <<>>
    /\ exited' = main(result)
    /\ pc' = "exit"
    /\ UNCHANGED <<doc, phase, amend_vars, pure_vars, file, opened_for_writing, printed,
                   canon, args, specs, previous_versions, lookup_memory, idx,
                   all_new_lines, yes_to_all, first_interactive, result,
                   opened_for_reading, calls>>

Next == Run \/ Resolve \/ Finish \/ Main

Spec == Init /\ [][Next]_vars

(***************************************************************************)
(* format_new_lines called on its own, on every list of hashes an index    *)
(* can return for a version.                                               *)
(***************************************************************************)
MaxHashes == 3

Digests == {"a", "a1", "b", "B"}

HashLists == UNION {[1..n -> Digests] : n \in 1..MaxHashes}

\* the values of the variables of amend while it is not called
AmendIdle ==
    /\ before = ""
    /\ requirements = ""
    /\ edits = <<>>

NoDoc == [lead |-> "", entries |-> <<>>, final_nl |-> TRUE]

FormatInit ==
    /\ given \in {[req |-> r, version |-> v, restriction |-> m, hashes |-> h] :
                     r \in {"b", "b[x]", "a-b"}, v \in {"1", "2.0"},
                     m \in {"", Marker}, h \in HashLists}
    /\ returned = <<>>
    /\ phase = "format"
    /\ doc = NoDoc
    /\ AmendIdle
    /\ RunIdle

\* new_lines of run_packages for a resolved package
FormatNewLines ==
    /\ phase = "format"
    /\ returned' = format_new_lines(given.req, given.version, given.restriction,
                                    given.hashes, DEFAULT_ALGORITHM)
    /\ phase' = "formatted"
    /\ UNCHANGED <<doc, given, amend_vars, run_vars>>

FormatSpec == FormatInit /\ [][FormatNewLines]_vars

(***************************************************************************)
(* get_package_hashes called on its own.                                   *)
(***************************************************************************)
HashesInit ==
    /\ given \in {[package |-> p, version |-> v, python_versions |-> pv,
                   include_prereleases |-> pre, canon |-> c] :
                     p \in {"b", "B", "a_b", "p", "zz"}, v \in {"", "1", "2", "9"},
                     pv \in {<<>>, <<"2.7">>, <<"3.5">>}, pre \in BOOLEAN,
                     c \in CanonSet}
    /\ returned = <<>>
    /\ phase = "hashes"
    /\ doc = NoDoc
    /\ AmendIdle
    /\ RunIdle

\* get_package_hashes(package, version, ...) without a lookup_memory
GetPackageHashes ==
    /\ phase = "hashes"
    /\ \E answer \in Answers :
          returned' = get_package_hashes(given.package, given.version,
                                         given.python_versions,
                                         given.include_prereleases, <<>>,
                                         given.canon, answer)
    /\ phase' = "hashed"
    /\ UNCHANGED <<doc, given, amend_vars, run_vars>>

HashesSpec == HashesInit /\ [][GetPackageHashes]_vars

(***************************************************************************)
(* interactive_upgrade_request called on its own: the lines typed at the   *)
(* prompt are given.inputs, one of them is read by every call of ask().    *)
(***************************************************************************)
MaxInputs == 3

Typed == {"y", "Y", " yes ", "YES", "", "n", " N", "a", "q", "Q ", "?", "x", "no"}

InputLists == UNION {[1..n -> Typed] : n \in 0..MaxInputs}

\* ask() with the help input taken for a yes
ask_help_is_yes(answer) ==
    IF answer = "n" THEN "NO"
    ELSE IF answer = "a" THEN "ALL"
    ELSE IF answer = "q" THEN "QUIT"
    ELSE IF answer \in {"y", "", "yes", "?"} THEN "YES"
    ELSE ""

\* the decision ask() returns for a lowered and stripped input; "" when it
\* returns ask(), that is, asks again
ask(answer) ==
    IF answer = "n" THEN "NO"
    ELSE IF answer = "a" THEN "ALL"
    ELSE IF answer = "q" THEN "QUIT"
    ELSE IF answer = "y" \/ answer = "" \/ answer = "yes" THEN "YES"
    ELSE ""

PromptInit ==
    /\ given \in {[force_yes |-> f, inputs |-> i] : f \in BOOLEAN, i \in InputLists}
    /\ returned = <<>>
    /\ phase = "prompt"
    /\ doc = NoDoc
    /\ AmendIdle
    /\ RunIdle

\* the body of interactive_upgrade_request up to the first ask()
InteractiveUpgradeRequest ==
    /\ phase = "prompt"
    /\ IF given.force_yes
       THEN /\ returned' = [response |-> "YES", consumed |-> 0, printed_help |-> FALSE]
            /\ phase' = "answered"
       ELSE /\ returned' = [response |-> "", consumed |-> 0, printed_help |-> FALSE]
            /\ phase' = "asking"
    /\ UNCHANGED <<doc, given, amend_vars, run_vars>>

\* one call of ask(): one line of input is read
Ask ==
    /\ phase = "asking"
    /\ returned.consumed < Len(given.inputs)
    /\ \E answer \in {strip(lower_text(given.inputs[returned.consumed + 1]), Whitespace)} :
          /\ returned' = [response |-> ask(answer),
                          consumed |-> returned.consumed + 1,
                          printed_help |-> (ask(answer) = "" /\ answer = "?")]
          /\ phase' = IF ask(answer) = "" THEN "asking" ELSE "answered"
    /\ UNCHANGED <<doc, given, amend_vars, run_vars>>

PromptNext == InteractiveUpgradeRequest \/ Ask

PromptSpec == PromptInit /\ [][PromptNext]_vars

(***************************************************************************)
(* get_latest_version called on its own, on a releases map whose keys are  *)
(* given.versions in the order of the JSON.                                *)
(***************************************************************************)
MaxVersions == 3

VersionKeys == {"0.04.13", "0.04.21", "0.99", "0.999", "1.0a1", "1.0", "1.1rc1", "1.1.0rc1", "2.0b2", "9.0", "10.0"}

VersionLists ==
    {v \in UNION {[1..n -> VersionKeys] : n \in 0..MaxVersions} :
         \A i, j \in 1..Len(v) : i # j => v[i] # v[j]}

\* "{0}".format(n)
RECURSIVE format_int(_)
format_int(n) ==
    IF n < 10 THEN Ch(Digits, n + 1) ELSE format_int(n \div 10) \o Ch(Digits, (n % 10) + 1)

\* the message of the NoVersionsError get_latest_version raises
no_versions_message(data, include_prereleases) ==
    LET count_prereleases ==
            IF include_prereleases THEN 0
            ELSE Cardinality({i \in 1..Len(data.releases) :
                                  is_prerelease(data.releases[i].version)})
    IN "No valid version found."
       \o (IF ~include_prereleases /\ count_prereleases # 0
           THEN " But, found " \o format_int(count_prereleases)
                \o " pre-releases. Consider running again with the --include-prereleases flag."
           ELSE "")

LatestInit ==
    /\ given \in {[data |-> [found |-> TRUE, name |-> "b", version |-> "0.3",
                             releases |-> [i \in 1..Len(v) |-> Release(v[i], <<>>)]],
                   include_prereleases |-> pre] :
                     v \in VersionLists, pre \in BOOLEAN}
    /\ returned = <<>>
    /\ phase = "latest"
    /\ doc = NoDoc
    /\ AmendIdle
    /\ RunIdle

GetLatestVersion ==
    /\ phase = "latest"
    /\ \E r \in {get_latest_version(given.data, given.include_prereleases)} :
          returned' = IF r.exc = ""
                      THEN [exc |-> "", version |-> r.version, msg |-> ""]
                      ELSE [exc |-> r.exc, version |-> "",
                            msg |-> no_versions_message(given.data,
                                                        given.include_prereleases)]
    /\ phase' = "latest found"
    /\ UNCHANGED <<doc, given, amend_vars, run_vars>>

LatestSpec == LatestInit /\ [][GetLatestVersion]_vars

(***************************************************************************)
(* expand_python_version applied to each version of a --python-version     *)
(* list, as filter_releases applies it.                                    *)
(***************************************************************************)
MaxPythonVersions == 2

PythonVersions == {"2.7", "3.5", "3.9", "3.10", "3.12", "3", "py3", "cp35", "source"}

PythonVersionLists == UNION {[1..n -> PythonVersions] : n \in 0..MaxPythonVersions}

ExpandInit ==
    /\ given \in PythonVersionLists
    /\ returned = <<>>
    /\ phase = "expand"
    /\ doc = NoDoc
    /\ AmendIdle
    /\ RunIdle

ExpandPythonVersions ==
    /\ phase = "expand"
    /\ returned' = [i \in 1..Len(given) |-> expand_python_version(given[i])]
    /\ phase' = "expanded"
    /\ UNCHANGED <<doc, given, amend_vars, run_vars>>

ExpandSpec == ExpandInit /\ [][ExpandPythonVersions]_vars

(***************************************************************************)
(* _download and get_package_data over HTTP.  given.web is what urlopen    *)
(* does with each url: it raises HTTPError with a status, or it returns a  *)
(* response with a status, a Location header ("" when there is none) and a *)
(* body.  One step of Download is one call of _download, that is, one      *)
(* request.  Bodies decode in the charset they declare.                    *)
(***************************************************************************)
\* the depth of calls of _download at which Python raises RecursionError; it
\* is above the number of urls, as the limit of Python is
RecursionLimit == 3

Urls == {"u1", "u2"}

\* bodies: the JSON of a package, JSON without the releases key, no JSON
Bodies == {"sane", "no releases", "text"}

HTTPError(status) == [raised |-> TRUE, status |-> status, location |-> "", body |-> ""]

Response(status, location, body) ==
    [raised |-> FALSE, status |-> status, location |-> location, body |-> body]

UrlopenResults ==
    {HTTPError(404), HTTPError(500)}
    \cup {Response(200, "", b) : b \in Bodies}
    \cup {Response(204, "", ""), Response(404, "", ""), Response(500, "", "")}
    \cup {Response(302, l, "") : l \in {""} \cup Urls}

\* _download with a 404 that urlopen raises taken for any other error
download_without_not_found(r) ==
    IF r.raised
    THEN [kind |-> "raise", exc |-> "PackageError", url |-> "", body |-> ""]
    ELSE IF 301 <= r.status /\ r.status < 400
    THEN IF r.location = ""
         THEN [kind |-> "raise", exc |-> "PackageError", url |-> "", body |-> ""]
         ELSE [kind |-> "follow", exc |-> "", url |-> r.location, body |-> ""]
    ELSE IF r.status = 404
    THEN [kind |-> "raise", exc |-> "PackageNotFoundError", url |-> "", body |-> ""]
    ELSE IF r.status # 200
    THEN [kind |-> "raise", exc |-> "PackageError", url |-> "", body |-> ""]
    ELSE [kind |-> "content", exc |-> "", url |-> "", body |-> r.body]

\* the body of _download for what urlopen did: raise, return the content, or
\* return _download(location)
download(r) ==
    IF r.raised
    THEN IF r.status = 404
         THEN [kind |-> "raise", exc |-> "PackageNotFoundError", url |-> "", body |-> ""]
         ELSE [kind |-> "raise", exc |-> "PackageError", url |-> "", body |-> ""]
    ELSE IF 301 <= r.status /\ r.status < 400
    THEN IF r.location = ""
         THEN [kind |-> "raise", exc |-> "PackageError", url |-> "", body |-> ""]
         ELSE [kind |-> "follow", exc |-> "", url |-> r.location, body |-> ""]
    ELSE IF r.status = 404
    THEN [kind |-> "raise", exc |-> "PackageNotFoundError", url |-> "", body |-> ""]
    ELSE IF r.status # 200
    THEN [kind |-> "raise", exc |-> "PackageError", url |-> "", body |-> ""]
    ELSE [kind |-> "content", exc |-> "", url |-> "", body |-> r.body]

DownloadInit ==
    /\ given \in {[url |-> "u1", web |-> w] : w \in [Urls -> UrlopenResults]}
    /\ returned = [url |-> "u1", requests |-> 0, kind |-> "", exc |-> "", body |-> "",
                   data |-> ""]
    /\ phase = "download"
    /\ doc = NoDoc
    /\ AmendIdle
    /\ RunIdle

\* one call of _download; the call past the recursion limit raises
Download ==
    /\ phase = "download"
    /\ IF returned.requests = RecursionLimit
       THEN /\ returned' = [returned EXCEPT !.kind = "raise", !.exc = "RecursionError"]
            /\ phase' = "downloaded"
       ELSE \E out \in {download(given.web[returned.url])} :
               IF out.kind = "follow"
               THEN /\ returned' = [returned EXCEPT !.url = out.url,
                                                    !.requests = returned.requests + 1]
                    /\ phase' = phase
               ELSE /\ returned' = [returned EXCEPT !.kind = out.kind, !.exc = out.exc,
                                                    !.body = out.body,
                                                    !.requests = returned.requests + 1]
                    /\ phase' = "downloaded"
    /\ UNCHANGED <<doc, given, amend_vars, run_vars>>

\* get_package_data once _download is back: json.loads and the releases key
GetPackageData ==
    /\ phase = "downloaded"
    /\ returned' = [returned EXCEPT !.data =
                        IF returned.kind = "raise" THEN returned.exc
                        ELSE IF returned.body = "text" THEN "ValueError"
                        ELSE IF returned.body = "no releases" THEN "PackageError"
                        ELSE "content"]
    /\ phase' = "data"
    /\ UNCHANGED <<doc, given, amend_vars, run_vars>>

DownloadNext == Download \/ GetPackageData

DownloadSpec == DownloadInit /\ [][DownloadNext]_vars

(***************************************************************************)
(* pre_download_packages and the loop of run_packages, task by task.       *)
(* given.specs are the specs, given.answer is what the network does with   *)
(* the request for each package.  Each spec has a future: it is "running"  *)
(* until its thread is done with get_package_data, "done" until            *)
(* as_completed hands it out, then "taken".                                *)
(***************************************************************************)
MaxTasks == 2

PrefetchNames == {"b", "p", "zz"}

PrefetchSpecs == UNION {[1..n -> PrefetchNames] : n \in 2..MaxTasks}

\* the loop of run_packages for specs that are package names, from spec i on:
\* the exception of the first resolution that fails, else the packages
\* resolved, of which the file is amended
RECURSIVE run_loop(_, _, _, _, _)
run_loop(the_specs, i, memory, answer, resolved) ==
    IF i > Len(the_specs) THEN [kind |-> "return", status |-> 0, resolved |-> resolved]
    ELSE LET got == get_package_hashes(the_specs[i], "", <<>>, FALSE, memory, "a-b",
                                       answer[the_specs[i]])
         IN IF got.exc # ""
            THEN [kind |-> "raise", exc |-> got.exc, package |-> the_specs[i]]
            ELSE run_loop(the_specs, i + 1, memory, answer, Append(resolved, got))

PrefetchInit ==
    /\ given \in {[specs |-> sp, answer |-> a] :
                     sp \in PrefetchSpecs, a \in [PrefetchNames -> {"200", "500"}]}
    /\ \E sp \in {given.specs} :
          returned = [futures |-> [i \in 1..Len(sp) |-> "running"], order |-> <<>>,
                      memory |-> <<>>, stage |-> "prefetch", outcome |-> NoResult]
    /\ phase = "prefetch"
    /\ doc = NoDoc
    /\ AmendIdle
    /\ RunIdle

\* the thread of a future is done with get_package_data
TaskDone ==
    /\ phase = "prefetch"
    /\ \E i \in 1..Len(given.specs) :
          /\ returned.futures[i] = "running"
          /\ returned' = [returned EXCEPT !.futures[i] = "done",
                                          !.order = Append(returned.order, i)]
    /\ phase' = phase
    /\ UNCHANGED <<doc, given, amend_vars, run_vars>>

\* as_completed hands out the next future that is done: future.result() is
\* stored in the memory, or raises what get_package_data raised, and that
\* leaves pre_download_packages and run_packages
AsCompleted ==
    /\ phase = "prefetch"
    /\ returned.stage = "prefetch"
    /\ returned.order # <<>>
    /\ \E i \in {Head(returned.order)} :
          \E content \in {get_package_data(given.specs[i], "a-b",
                                           given.answer[given.specs[i]])} :
             IF content.exc # ""
             THEN returned' = [returned EXCEPT
                                  !.futures[i] = "taken",
                                  !.order = Tail(returned.order),
                                  !.stage = "raised",
                                  !.outcome = [kind |-> "raise", exc |-> content.exc,
                                               package |-> given.specs[i]]]
             ELSE returned' = [returned EXCEPT
                                  !.futures[i] = "taken",
                                  !.order = Tail(returned.order),
                                  !.memory = [n \in DOMAIN returned.memory
                                                       \cup {given.specs[i]} |->
                                                 IF n = given.specs[i] THEN content.data
                                                 ELSE returned.memory[n]],
                                  !.stage = IF \A j \in 1..Len(given.specs) :
                                                   j = i \/ returned.futures[j] = "taken"
                                            THEN "loop" ELSE "prefetch"]
    /\ phase' = phase
    /\ UNCHANGED <<doc, given, amend_vars, run_vars>>

\* the loop of run_packages over the specs, with the memory of the prefetch
RunLoop ==
    /\ phase = "prefetch"
    /\ returned.stage = "loop"
    /\ returned' = [returned EXCEPT
                        !.stage = "looped",
                        !.outcome = run_loop(given.specs, 1, returned.memory,
                                             given.answer, <<>>)]
    /\ phase' = "prefetched"
    /\ UNCHANGED <<doc, given, amend_vars, run_vars>>

\* the executor is left once every thread is done: run_packages is left with
\* the exception of the prefetch
Shutdown ==
    /\ phase = "prefetch"
    /\ returned.stage = "raised"
    /\ \A i \in 1..Len(given.specs) : returned.futures[i] # "running"
    /\ phase' = "prefetched"
    /\ UNCHANGED <<doc, given, returned, amend_vars, run_vars>>

PrefetchNext == TaskDone \/ AsCompleted \/ RunLoop \/ Shutdown

PrefetchSpec == PrefetchInit /\ [][PrefetchNext]_vars

(***************************************************************************)
(* get_releases_hashes for an artifact whose digest the index does not     *)
(* publish: the artifact is kept in a file of the temporary directory,     *)
(* named after it.  Two resolutions of the artifact, in one run, in two    *)
(* runs at once or in one run after the other, share the file.  given is   *)
(* the bytes of the artifact; a digest is modelled by the bytes hashed.    *)
(***************************************************************************)
Resolvers == {1, 2}

Artifacts == {"ab", "abc"}

\* the file after bytes are written at an offset; a gap reads as zeros
RECURSIVE write_at(_, _, _)
write_at(content, offset, bytes) ==
    IF Len(content) < offset THEN write_at(content \o "0", offset, bytes)
    ELSE SubSeq(content, 1, offset) \o bytes
         \o Drop(content, SetMin({Len(content), offset + Len(bytes)}))

CacheInit ==
    /\ given \in Artifacts
    /\ returned = [isfile |-> FALSE, content |-> "",
                   at |-> [r \in Resolvers |-> "isfile"],
                   offset |-> [r \in Resolvers |-> 0],
                   hash |-> [r \in Resolvers |-> ""],
                   after_failure |-> [r \in Resolvers |-> FALSE]]
    /\ phase = "cache"
    /\ doc = NoDoc
    /\ AmendIdle
    /\ RunIdle

\* os.path.isfile(filename): the file is downloaded or re-used
IsFile(r) ==
    /\ returned.at[r] = "isfile"
    /\ returned' = [returned EXCEPT
                        !.at[r] = IF returned.isfile THEN "hash" ELSE "open",
                        !.after_failure[r] =
                            \E o \in Resolvers \ {r} : returned.at[o] = "raised"]

\* open(filename, "wb"): the file is there and empty
Open(r) ==
    /\ returned.at[r] = "open"
    /\ returned' = [returned EXCEPT !.isfile = TRUE, !.content = "", !.offset[r] = 0,
                                    !.at[r] = "download"]

\* _download(url, binary=True) returns the bytes, or raises and the file is
\* closed as it is
DownloadArtifact(r) ==
    /\ returned.at[r] = "download"
    /\ \E ok \in BOOLEAN :
          returned' = [returned EXCEPT !.at[r] = IF ok THEN "write" ELSE "raised"]

\* f.write(bytes) up to the close of the file: the bytes reach the file one
\* buffer at a time
Write(r) ==
    /\ returned.at[r] = "write"
    /\ LET offset == returned.offset[r]
       IN returned' = [returned EXCEPT
                           !.content = write_at(returned.content, offset,
                                                SubSeq(given, offset + 1, offset + 1)),
                           !.offset[r] = offset + 1,
                           !.at[r] = IF offset + 1 = Len(given) THEN "hash" ELSE "write"]

\* pip_api.hash(filename, algorithm)
Hash(r) ==
    /\ returned.at[r] = "hash"
    /\ returned' = [returned EXCEPT !.hash[r] = returned.content, !.at[r] = "yield"]

CacheNext ==
    /\ phase = "cache"
    /\ \E r \in Resolvers : IsFile(r) \/ Open(r) \/ DownloadArtifact(r) \/ Write(r) \/ Hash(r)
    /\ UNCHANGED <<doc, phase, given, amend_vars, run_vars>>

CacheSpec == CacheInit /\ [][CacheNext]_vars

(***************************************************************************)
(* Properties of amend_requirements_content.  They speak of the document  *)
(* through doc, the description it was written from.                       *)
(***************************************************************************)
SingleEdit == phase = "amended" /\ Len(edits) = 1

\* the package name a header line starts with
header_name(line) ==
    LET rest == Drop(line, Len(indent_of(line)))
        stop == {i \in 1..Len(rest) : Ch(rest, i) \in {"=", "[", ";", " "}}
    IN IF stop = {} THEN rest ELSE SubSeq(rest, 1, SetMin(stop) - 1)

\* the header lines of text that pin the package called name
entries_of(text, name) ==
    LET ls == splitlines(text)
    IN {i \in 1..Len(ls) : /\ normal_package(header_name(ls[i])) = normal_package(name)
                           /\ Contains(ls[i], "==")}

\* entry k of doc is the only entry of its package
only_entry(k, name) ==
    /\ k \in 1..Len(doc.entries)
    /\ \A j \in 1..Len(doc.entries) :
          normal_package(doc.entries[j].name) = normal_package(name) <=> j = k

\* sub occurs in all_lines as consecutive lines
lines_occur(sub, all_lines) ==
    \E off \in 0..Len(all_lines) :
        /\ off + Len(sub) <= Len(all_lines)
        /\ \A i \in 1..Len(sub) : all_lines[off + i] = sub[i]

\* C2: amend is idempotent: the same edit list applied to the result of
\* applying it returns that result unchanged.
C2_Idempotent == phase = "reamended" => requirements = before

\* the entry and the block of the edit pin the same header and the same set
\* of hashes
same_up_to_order(e, ed) ==
    /\ e.name = ed.package
    /\ ed.old_name = ed.package
    /\ e.extras = ed.extras
    /\ e.version = ed.version
    /\ e.marker = (IF ed.marker = "" THEN "" ELSE "; " \o ed.marker)
    /\ range_of(e.hashes) = range_of(ed.hashes)
    /\ e.comments = <<>>

\* C3: an edit whose block has the header and the set of hash lines of the
\* existing entry, in another order or with other trailing backslashes,
\* leaves the document unchanged, whatever the indentation, name and marker.
C3_OrderInsensitive ==
    SingleEdit =>
        \A k \in 1..Len(doc.entries) :
            (only_entry(k, edits[1].package) /\ same_up_to_order(doc.entries[k], edits[1]))
                => requirements = before

\* text without the newlines it ends with
RECURSIVE without_final_newlines(_)
without_final_newlines(s) ==
    IF s # "" /\ Ch(s, Len(s)) = "\n"
    THEN without_final_newlines(SubSeq(s, 1, Len(s) - 1))
    ELSE s

\* C4: when no line matches the edit, the result is the existing content
\* unchanged, ending with exactly one newline, then the stripped block and a
\* newline; for the empty document it is the stripped block and a newline.
C4_Append ==
    (SingleEdit /\ \A i \in 1..Len(splitlines(before)) :
                      ~regex_search(splitlines(before)[i], edits[1].old_name))
        => requirements =
              (IF before = "" THEN "" ELSE without_final_newlines(before) \o "\n")
              \o strip(edits[1].new_text, Whitespace) \o "\n"

\* C5: amending b, a substring of the name of another package, changes no
\* line of the header and hash lines of that package.
C5_SubstringSafe ==
    (SingleEdit /\ edits[1].package = "b" /\ edits[1].old_name = "b")
        => \A k \in 1..Len(doc.entries) :
              (doc.entries[k].name # "b" /\ Contains(doc.entries[k].name, "b"))
                  => lines_occur(splitlines(entry_span(doc.entries[k])),
                                 splitlines(requirements))

\* C6: an entry whose name differs from the old name of the edit only in
\* case or in hyphen against underscore, in either direction, is that
\* package's entry: the result holds exactly one entry for the package.
C6_NameNormalized ==
    SingleEdit =>
        \A k \in 1..Len(doc.entries) :
            (edits[1].old_name = edits[1].package /\ only_entry(k, edits[1].old_name))
                => Cardinality(entries_of(requirements, edits[1].package)) = 1

\* C9: when an entry is replaced, the indented comment lines that follow its
\* hash lines stand verbatim directly after the new block.
C9_CommentsKept ==
    SingleEdit =>
        \A k \in 1..Len(doc.entries) :
            (/\ only_entry(k, edits[1].package)
             /\ doc.entries[k].name = edits[1].old_name
             /\ doc.entries[k].comments # <<>>
             /\ requirements # before)
                => Contains(requirements,
                            indented_text(edits[1].new_text, doc.entries[k].indent)
                            \o join("\n", doc.entries[k].comments))

\* the document with the header and hash lines of entry k replaced by block
with_span_replaced(k, block) ==
    doc.lead \o entries_text(SubSeq(doc.entries, 1, k - 1))
    \o block \o entry_comments(doc.entries[k])
    \o entries_text(SubSeq(doc.entries, k + 1, Len(doc.entries)))

\* C10: replacing an entry that differs from the new block changes exactly
\* its lines: the result is the document with them replaced by the block,
\* indented as the entry was, and the text before and after is unchanged.
C10_ExactSpan ==
    SingleEdit =>
        \A k \in 1..Len(doc.entries) :
            (/\ only_entry(k, edits[1].package)
             /\ doc.entries[k].name = edits[1].old_name
             /\ doc.entries[k].version # edits[1].version
             /\ doc.entries[k].comments = <<>>)
                => LET want == with_span_replaced(
                                   k, indented_text(edits[1].new_text, doc.entries[k].indent))
                   IN \/ requirements = want
                      \/ ~doc.final_nl /\ requirements = SubSeq(want, 1, Len(want) - 1)

(***************************************************************************)
(* Properties of run and run_packages.  doc describes the file as it was   *)
(* before the call.                                                        *)
(***************************************************************************)
\* C1: when resolving a spec raises, the file was never opened for writing
\* and its content is the content before the call, also when earlier specs of
\* the batch resolved.
C1_Atomic ==
    result.kind = "raise" => (opened_for_writing = 0 /\ file = doc_text(doc))

\* a spec failed after an earlier one resolved to an edit that would have
\* changed the file
C1_Witness ==
    /\ result.kind = "raise"
    /\ all_new_lines # <<>>
    /\ amend_requirements_content(file, all_new_lines) # file

\* the header of a block: its first line without the backslash it ends with
header_of(new_text) == strip(Head(splitlines(new_text)), {" ", "\\"})

\* what stands between the name and the == of a header: the extras
extras_text(header) ==
    SubSeq(header, Len(header_name(header)) + 1, find(header, "==") - 1)

\* edit i is the last edit of all_new_lines for its package
last_edit(i) ==
    \A j \in (i + 1)..Len(all_new_lines) :
        normal_package(all_new_lines[j].package) # normal_package(all_new_lines[i].package)

\* the header of the edit names the package as the index does, with the
\* extras and the marker of a spec that asks for the package
canonical_header(edit) ==
    \E j \in 1..Len(specs) :
        LET exploded == explode_package_spec(specs[j])
            req == Requirement(exploded.package)
            header == Requirement(header_of(edit.new_text))
        IN /\ index_json(req.name, canon).found
           /\ header.name = index_json(req.name, canon).name
           /\ sorted_strings(header.extras) = sorted_strings(req.extras)
           /\ header.marker = exploded.restriction

\* C7: the header run_packages writes for a spec names the package as the
\* index does and keeps the extras and the marker of the spec; in update-all
\* mode an entry spelled otherwise is replaced by one entry under that name.
C7_CanonicalName ==
    (pc = "done" /\ opened_for_writing = 1) =>
        \A i \in 1..Len(all_new_lines) :
            /\ canonical_header(all_new_lines[i])
            /\ (/\ previous_versions.given
                /\ last_edit(i)
                /\ all_new_lines[i].old_name # all_new_lines[i].package)
                  => LET found == entries_of(file, all_new_lines[i].package)
                     IN /\ Cardinality(found) = 1
                        /\ \A n \in found :
                              header_name(splitlines(file)[n]) = all_new_lines[i].package

\* C8: run for a package the document has an entry of, with other extras than
\* the entry's, leaves exactly one entry for the package, with the extras
\* asked for, and the old header no longer occurs.
C8_ExtrasReplaced ==
    (pc = "done" /\ opened_for_writing = 1 /\ ~previous_versions.given) =>
        \A k \in 1..Len(doc.entries), i \in 1..Len(all_new_lines) :
            (/\ only_entry(k, all_new_lines[i].package)
             /\ last_edit(i)
             /\ doc.entries[k].extras # extras_text(header_of(all_new_lines[i].new_text)))
                => LET found == entries_of(file, all_new_lines[i].package)
                       old == doc.entries[k].name \o doc.entries[k].extras \o "=="
                   IN /\ Cardinality(found) = 1
                      /\ \A n \in found :
                            extras_text(splitlines(file)[n])
                                = extras_text(header_of(all_new_lines[i].new_text))
                      /\ \A n \in 1..Len(splitlines(file)) :
                            ~startswith(splitlines(file)[n], old)

(***************************************************************************)
(* Properties of the block run_packages builds for a resolved package.     *)
(***************************************************************************)
\* the digest a hash line names
digest_of(line) ==
    LET text == strip(line, {" ", "\\"})
    IN Drop(text, find(text, ":"))

\* the lists that hold the elements of h in another order
permutations(h) ==
    {[i \in 1..Len(h) |-> h[f[i]]] :
        f \in {g \in [1..Len(h) -> 1..Len(h)] :
                  \A i, j \in 1..Len(h) : g[i] = g[j] => i = j}}

\* C11: the hash lines of a block are in ascending order of digest, and the
\* block is the same for every order in which the index returns the releases.
C11_CanonicalOrder ==
    phase = "formatted" =>
        /\ LET ls == splitlines(returned)
           IN \A i \in 2..(Len(ls) - 1) :
                 ~str_less(digest_of(ls[i + 1]), digest_of(ls[i]))
        /\ \A h \in permutations(given.hashes) :
              format_new_lines(given.req, given.version, given.restriction, h,
                               DEFAULT_ALGORITHM) = returned

\* a block of three hashes that the index returned in descending order
C11_Witness ==
    /\ phase = "formatted"
    /\ given.hashes = <<"b", "a1", "B">>
    /\ Len(splitlines(returned)) = 4

\* C13: a block is the header name[extras]==version[; marker], then one line
\* per hash of four spaces and --hash=algorithm:digest; every line but the
\* last ends with a space and a backslash, the last with neither, and the
\* block ends with a newline.
C13_BlockFormat ==
    phase = "formatted" =>
        LET ls == splitlines(returned)
            n == Len(given.hashes)
        IN /\ Len(ls) = n + 1
           /\ Ch(returned, Len(returned)) = "\n"
           /\ returned = join("\n", ls) \o "\n"
           /\ ls[1] = given.req \o "==" \o given.version
                      \o (IF given.restriction = "" THEN "" ELSE "; " \o given.restriction)
                      \o " \\"
           /\ \A i \in 2..(n + 1) :
                 \E d \in range_of(given.hashes) :
                    ls[i] = "    --hash=" \o DEFAULT_ALGORITHM \o ":" \o d
                            \o (IF i = n + 1 THEN "" ELSE " \\")
           /\ \A d \in range_of(given.hashes) :
                 \E i \in 2..(n + 1) : digest_of(ls[i]) = d

\* a block of a single hash, under a marker
C13_Witness ==
    /\ phase = "formatted"
    /\ Len(given.hashes) = 1
    /\ given.restriction # ""
    /\ given.req = "b[x]"

(***************************************************************************)
(* Properties of get_package_hashes.                                       *)
(***************************************************************************)
\* C12: get_package_hashes returns the hashes of the surviving releases in
\* ascending order of digest, whatever their order in the index, with the
\* package name the index reports.
C12_SortedHashes ==
    (phase = "hashed" /\ returned.exc = "") =>
        /\ \A i \in 1..(Len(returned.hashes) - 1) :
              ~str_less(returned.hashes[i + 1], returned.hashes[i])
        /\ returned.package = index_json(given.package, given.canon).name

(***************************************************************************)
(* Properties of run in update-all mode, interactive mode and dry runs.    *)
(***************************************************************************)
\* the version the index resolves for the package of entry k, "" when it
\* resolves none
resolved_version(k) ==
    LET json == index_json(doc.entries[k].name, canon)
        latest == get_latest_version(json, args.options.include_prereleases)
    IN IF json.found /\ latest.exc = "" THEN latest.version ELSE ""

\* entry k pins the version the index resolves
up_to_date(k) == doc.entries[k].version = resolved_version(k)

\* C14: in update-all mode no edit is produced for an entry whose pinned
\* version is the resolved one, extras and marker or not; when every entry
\* is up to date the file is never opened for writing.
C14_UpdateAllSkips ==
    (args.specs = <<>> /\ pc = "done" /\ result = Returned(0)) =>
        /\ \A k \in 1..Len(doc.entries) :
              up_to_date(k) =>
                 \A i \in 1..Len(all_new_lines) :
                    all_new_lines[i].old_name # doc.entries[k].name
        /\ (\A k \in 1..Len(doc.entries) : up_to_date(k)) => opened_for_writing = 0

\* C15: a run that accumulates no edit returns 0 and the file is neither read
\* for amending nor written: its content is unchanged.
C15_NoEditNoTouch ==
    (pc = "done" /\ idx > Len(specs) /\ all_new_lines = <<>>) =>
        /\ result = Returned(0)
        /\ opened_for_reading = 0
        /\ opened_for_writing = 0
        /\ printed = <<>>
        /\ file = doc_text(doc)

\* every package of a batch was asked about and answered no
C15_Witness ==
    /\ pc = "done"
    /\ result = Returned(0)
    /\ all_new_lines = <<>>
    /\ Len(specs) = 2
    /\ Len(calls) = 2
    /\ \A i \in 1..Len(calls) : calls[i].response = "NO"

prompts == {i \in 1..Len(calls) : ~calls[i].force_yes}

\* the packages of the calls answered YES or ALL, in order
RECURSIVE accepted(_)
accepted(cs) ==
    IF cs = <<>> THEN <<>>
    ELSE (IF Head(cs).response \in {"YES", "ALL"} THEN <<Head(cs).package>> ELSE <<>>)
         \o accepted(Tail(cs))

\* C17: a package answered QUIT ends the run: it returns 1 at once, no later
\* package is asked about, the edits accepted before are dropped and the
\* file keeps its content.
C17_QuitIsTerminal ==
    \A i \in 1..Len(calls) :
        calls[i].response = "QUIT" =>
            /\ i = Len(calls)
            /\ pc \in {"done", "exit"}
            /\ result = Returned(1)
            /\ idx <= Len(specs)
            /\ opened_for_reading = 0
            /\ opened_for_writing = 0
            /\ printed = <<>>
            /\ file = doc_text(doc)

\* QUIT after a package was accepted whose edit would have changed the file
C17_Witness ==
    /\ Len(calls) = 2
    /\ calls[1].response = "YES"
    /\ calls[2].response = "QUIT"
    /\ Len(all_new_lines) = 1
    /\ amend_requirements_content(file, all_new_lines) # file

\* C18: after a package is answered ALL it is accepted and every later
\* package that differs is accepted without input being read: the prompts
\* are the calls up to and including the one answered ALL.
C18_AcceptAllSticks ==
    /\ \A i \in 1..Len(calls) :
          calls[i].response = "ALL" =>
             /\ prompts = 1..i
             /\ \A j \in (i + 1)..Len(calls) :
                   calls[j].force_yes /\ calls[j].response = "YES"
    /\ \A j \in 1..Len(calls) :
          calls[j].force_yes => \E i \in 1..(j - 1) : calls[i].response = "ALL"
    /\ args # <<>> /\ args.options.interactive =>
          accepted(calls) = [i \in 1..Len(all_new_lines) |-> all_new_lines[i].package]

\* ALL for the first package of two, the second accepted without asking
C18_Witness ==
    /\ Len(calls) = 2
    /\ calls[1].response = "ALL"
    /\ calls[2].force_yes
    /\ Len(all_new_lines) = 2
    /\ pc = "done"
    /\ opened_for_writing = 1

\* C19: after an interactive run that was not quit the file is the original
\* amended with the edits of the packages answered YES or ALL or accepted
\* without asking, in the order of the specs, and the entry of every package
\* answered NO is unchanged.
C19_DecisionsPerPackage ==
    (args # <<>> /\ args.options.interactive /\ ~args.options.dry_run
     /\ pc = "done" /\ result = Returned(0)) =>
        /\ accepted(calls) = [i \in 1..Len(all_new_lines) |-> all_new_lines[i].package]
        /\ file = amend_requirements_content(doc_text(doc), all_new_lines)
        /\ \A k \in 1..Len(doc.entries), i \in 1..Len(calls) :
              (/\ calls[i].response = "NO"
               /\ normal_package(calls[i].package) = normal_package(doc.entries[k].name)
               /\ \A j \in 1..Len(all_new_lines) :
                     normal_package(all_new_lines[j].package)
                         # normal_package(calls[i].package))
                 => lines_occur(splitlines(entry_span(doc.entries[k])), splitlines(file))

\* the answers the prompt accepts, as they are spelled
Spelled == [YES |-> {"y", "yes", ""}, NO |-> {"n"}, ALL |-> {"a"}, QUIT |-> {"q"}]

\* the decisions an input stands for once trimmed and put in lower case
meant(input) ==
    {d \in DOMAIN Spelled : lower_text(strip(input, Whitespace)) \in Spelled[d]}

\* C20: interactive_upgrade_request returns only YES, NO, ALL or QUIT, the
\* decision its first recognised input spells (trimmed, in any case); the
\* help input and every other input ask again without a decision, and
\* nothing is read after the recognised input.
C20_OneDecision ==
    /\ phase = "asking" =>
          /\ returned.response = ""
          /\ \A i \in 1..returned.consumed : meant(given.inputs[i]) = {}
    /\ phase = "answered" =>
          /\ returned.response \in {"YES", "NO", "ALL", "QUIT"}
          /\ IF given.force_yes
             THEN returned.response = "YES" /\ returned.consumed = 0
             ELSE /\ returned.consumed >= 1
                  /\ meant(given.inputs[returned.consumed]) = {returned.response}
                  /\ \A i \in 1..(returned.consumed - 1) : meant(given.inputs[i]) = {}

\* help, then an unknown input, then a spaced upper case no
C20_Witness ==
    /\ phase = "answered"
    /\ given.inputs = <<"?", "x", " N">>
    /\ returned.response = "NO"
    /\ returned.consumed = 3

\* the order of the version keys under PEP 440, and the pre-releases among
\* them: 0.04.13 < 0.04.21 < 0.99 < 0.999 < 1.0a1 < 1.0 < 1.1rc1 = 1.1.0rc1
\* < 2.0b2 < 9.0 < 10.0
Rank ==
    [v \in VersionKeys |->
        CASE v = "0.04.13" -> 1 [] v = "0.04.21" -> 2 [] v = "0.99" -> 3
          [] v = "0.999" -> 4 [] v = "1.0a1" -> 5 [] v = "1.0" -> 6
          [] v = "1.1rc1" -> 7 [] v = "1.1.0rc1" -> 7 [] v = "2.0b2" -> 8
          [] v = "9.0" -> 9 [] v = "10.0" -> 10]

PreReleases == {"1.0a1", "1.1rc1", "1.1.0rc1", "2.0b2"}

\* the keys of the given releases map get_latest_version may return
eligible ==
    {given.data.releases[i].version : i \in 1..Len(given.data.releases)}
    \ (IF given.include_prereleases THEN {} ELSE PreReleases)

\* C21: get_latest_version returns an eligible key of the releases map that
\* no eligible key exceeds under version comparison; only final releases are
\* eligible unless include_prereleases is set.
C21_LatestIsMaximum ==
    (phase = "latest found" /\ eligible # {}) =>
        /\ returned.exc = ""
        /\ returned.version \in eligible
        /\ \A v \in eligible : Rank[v] <= Rank[returned.version]

\* the latest version is not the one string order puts last: 10.0 over 9.0
C21_Witness ==
    /\ phase = "latest found"
    /\ returned.exc = ""
    /\ returned.version = "10.0"
    /\ "9.0" \in eligible
    /\ "2.0b2" \in eligible

\* C22: get_latest_version raises NoVersionsError whenever no key is
\* eligible, a releases map without keys included, and when pre-releases
\* were left out its message tells how many there were.
C22_NoVersionsError ==
    (phase = "latest found" /\ eligible = {}) =>
        /\ returned.exc = "NoVersionsError"
        /\ ~given.include_prereleases =>
              Contains(returned.msg,
                       "found " \o format_int(Len(given.data.releases)) \o " pre-releases")

\* a string of digits only, at least one
is_number(s) == s # "" /\ \A i \in 1..Len(s) : Contains(Digits, Ch(s, i))

\* a token major.minor
is_major_minor(v) ==
    LET parts == split(v, ".")
    IN Len(parts) = 2 /\ is_number(parts[1]) /\ is_number(parts[2])

\* the seven tags of major.minor
seven_tags(v) ==
    LET major == split(v, ".")[1]
        minor == split(v, ".")[2]
    IN {major \o "." \o minor, "cp" \o major \o minor, "py" \o major,
        "py" \o major \o "." \o minor, "py" \o major \o minor, "source", "py2.py3"}

\* C23: expand_python_version maps every token major.minor, a minor of two
\* digits such as 3.10 included, to its seven tags: 3.10 to 3.10, cp310, py3,
\* py3.10, py310, source and py2.py3.
C23_SevenTags ==
    phase = "expanded" =>
        \A i \in 1..Len(given) :
            /\ is_major_minor(given[i]) => returned[i] = seven_tags(given[i])
            /\ given[i] = "3.10" =>
                  returned[i] = {"3.10", "cp310", "py3", "py3.10", "py310", "source", "py2.py3"}

\* what urlopen did with the last url requested
last_response == given.web[returned.url]

\* a response _download follows instead of ending on it
followed(r) == ~r.raised /\ r.status \in 301..399 /\ r.location # ""

\* C24: get_package_data fails with PackageNotFoundError when the response is
\* a 404 and only then, with PackageError for every other status that is not
\* a success, and with PackageError for a 200 whose JSON has no releases key.
C24_ErrorKinds ==
    (phase = "data" /\ ~followed(last_response)) =>
        /\ returned.data = "PackageNotFoundError" <=> last_response.status = 404
        /\ last_response.status \notin {200, 404} => returned.data = "PackageError"
        /\ (last_response.status = 200 /\ last_response.body = "no releases") =>
               returned.data = "PackageError"
        /\ (last_response.status = 200 /\ last_response.body = "sane") =>
               returned.data = "content"

\* a 404 raised by urlopen behind a redirect
C24_Witness ==
    /\ phase = "data"
    /\ returned.requests = 2
    /\ last_response = HTTPError(404)
    /\ returned.data = "PackageNotFoundError"

\* C30: _download ends for every behaviour of the index by returning the
\* content or raising PackageError or PackageNotFoundError, also when the
\* index answers with a chain or a cycle of redirects that carry a Location.
C30_DownloadEnds ==
    phase = "downloaded" =>
        \/ returned.kind = "content"
        \/ returned.kind = "raise" /\ returned.exc \in {"PackageError", "PackageNotFoundError"}

\* C25: every failure of a resolution raised inside run, PackageError,
\* PackageNotFoundError or NoVersionsError, is caught by main, printed as one
\* line on stderr and turned into exit status 1; none leaves main uncaught.
C25_MainCatchesAll ==
    (pc = "exit" /\ result.kind = "raise") =>
        /\ exited.kind = "exit"
        /\ exited.status = 1
        /\ Len(exited.stderr) = 1

\* the specs whose prefetch fails
prefetch_failures ==
    {i \in 1..Len(given.specs) :
         get_package_data(given.specs[i], "a-b", given.answer[given.specs[i]]).exc # ""}

\* C26: when the prefetch of one package fails, the prefetch of the other
\* packages is completed and stored in the lookup memory, and the failure is
\* not raised from pre_download_packages: it is raised in the loop of
\* run_packages when that package is resolved.
C26_PrefetchIsolation ==
    (phase = "prefetched" /\ prefetch_failures # {}) =>
        /\ returned.stage = "looped"
        /\ \A i \in 1..Len(given.specs) :
              i \notin prefetch_failures => given.specs[i] \in DOMAIN returned.memory
        /\ returned.outcome.kind = "raise"
        /\ \E i \in prefetch_failures : returned.outcome.package = given.specs[i]

\* C27: for two specs or more and every behaviour of the index, run_packages
\* with the prefetch ends as run_packages with synchronous=True does, whatever
\* the order in which the tasks of the prefetch are done: the same packages
\* written to the file and the same status returned, or the same kind of
\* error for the same package.
C27_PrefetchIsOptimization ==
    phase = "prefetched" =>
        returned.outcome = run_loop(given.specs, 1, <<>>, given.answer, <<>>)

\* C28: when two resolutions of one artifact run at once on the shared
\* temporary directory, each returns the digest of the complete bytes of the
\* artifact; neither hashes a file the other has created and not finished.
C28_ConcurrentCache ==
    (phase = "cache" /\ \A r \in Resolvers : returned.at[r] # "raised") =>
        \A r \in Resolvers : returned.at[r] = "yield" => returned.hash[r] = given

\* C29: after a download of the artifact failed, a later resolution of it
\* downloads the bytes again or fails; it never re-uses the file the failed
\* attempt left, so a digest it returns is the digest of the complete bytes.
C29_NoPoisonedCache ==
    phase = "cache" =>
        \A r \in Resolvers :
            (returned.after_failure[r] /\ returned.at[r] = "yield") =>
                returned.hash[r] = given

=============================================================================
